---- MODULE Spec2Model ----
(***************************************************************************)
(* Model of the Hadith narrator connection app (src/app.py): the narrator  *)
(* search helper, the session callbacks that build the narrator chain, and *)
(* the pairwise sanad validation that renders one card per adjacent pair.  *)
(* Strings are sequences of one-character strings.                         *)
(***************************************************************************)
EXTENDS Integers, Sequences, FiniteSets, TLC

VARIABLES
    narrator_chain,  \* st.session_state.narrator_chain
    matches,         \* st.session_state.matches
    input,           \* st.session_state.input
    selected,        \* st.session_state.selected
    cards,           \* the result cards rendered by the last script run
    query,           \* argument of search_narrators
    choices,         \* argument of search_narrators
    n,               \* argument of search_narrators
    result,          \* value returned by search_narrators
    ra,              \* row of the earlier narrator of a pair
    rb,              \* row of the later narrator of a pair
    verdict,         \* values computed by the loop body for (ra, rb)
    pc               \* "session", or the position of a single call

vars == <<narrator_chain, matches, input, selected, cards,
          query, choices, n, result, ra, rb, verdict, pc>>

sessionVars == <<narrator_chain, matches, input, selected, cards>>
searchVars == <<query, choices, n, result>>
pairVars == <<ra, rb, verdict>>

\* Placeholder of a value that is not in use or not computed yet.
Null == <<>>

-----------------------------------------------------------------------------
(* Bounds *)

MaxPool == 3      \* longest list of choices handed to search_narrators
MaxN == 2         \* largest explicit n handed to search_narrators
EarlyYears == 3   \* years 1..EarlyYears, and the same years a decade later
MaxIdx == 3       \* largest index handed to remove_narrator

(* Program constants *)

DefaultN == 8         \* search_narrators: n=8
CutoffNum == 7        \* search_narrators: cutoff=0.7, as CutoffNum/CutoffDen
CutoffDen == 10
StrongOverlap == 10   \* overlap_years >= 10
WeakOverlap == 1      \* overlap_years >= 1

-----------------------------------------------------------------------------
(* Strings *)

\* str.lower on one character
LowerChar(c) ==
    CASE c = "M" -> "m"
      [] c = "A" -> "a"
      [] c = "L" -> "l"
      [] c = "I" -> "i"
      [] c = "K" -> "k"
      [] c = "E" -> "e"
      [] OTHER -> c

\* str.lower
Lower(s) == [i \in 1..Len(s) |-> LowerChar(s[i])]

IsSpace(c) == c = " "

\* str.strip: drop leading and trailing whitespace
Strip(s) ==
    LET keep == {i \in 1..Len(s) : ~IsSpace(s[i])}
    IN  IF keep = {} THEN <<>>
        ELSE LET lo == CHOOSE i \in keep : \A j \in keep : i <= j
                 hi == CHOOSE i \in keep : \A j \in keep : j <= i
             IN  SubSeq(s, lo, hi)

\* Python's `q in c` for strings
Contains(c, q) ==
    \E i \in 0..(Len(c) - Len(q)) : \A k \in 1..Len(q) : c[i + k] = q[k]

\* code points of the characters a lowered string can hold
Code(c) ==
    CASE c = " " -> 32
      [] c = "a" -> 97
      [] c = "e" -> 101
      [] c = "h" -> 104
      [] c = "i" -> 105
      [] c = "k" -> 107
      [] c = "l" -> 108
      [] c = "m" -> 109
      [] c = "n" -> 110
      [] c = "s" -> 115
      [] c = "z" -> 122
      [] OTHER -> 0

\* Python's s < t for strings: first differing code point, else length
StrLess(s, t) ==
    \/ \E i \in 1..Len(s) :
          /\ i <= Len(t)
          /\ \A k \in 1..(i - 1) : s[k] = t[k]
          /\ Code(s[i]) < Code(t[i])
    \/ /\ Len(s) < Len(t)
       /\ \A k \in 1..Len(s) : s[k] = t[k]

\* s[:k]
Prefix(s, k) == SubSeq(s, 1, IF k < Len(s) THEN k ELSE Len(s))

Elems(s) == {s[i] : i \in 1..Len(s)}

-----------------------------------------------------------------------------
(* difflib, as used by search_narrators *)

\* SequenceMatcher.find_longest_match over a[alo..ahi] and b[blo..bhi]
\* (1-based, inclusive): the longest common block, of those the one that
\* starts earliest in a, and of those the one that starts earliest in b.
find_longest_match(a, alo, ahi, b, blo, bhi) ==
    LET blocks == {m \in (alo..ahi) \X (blo..bhi) \X (1..(ahi - alo + 1)) :
                      /\ m[1] + m[3] - 1 <= ahi
                      /\ m[2] + m[3] - 1 <= bhi
                      /\ \A t \in 0..(m[3] - 1) : a[m[1] + t] = b[m[2] + t]}
    IN  IF blocks = {} THEN <<alo, blo, 0>>
        ELSE CHOOSE m \in blocks : \A o \in blocks :
                \/ m[3] > o[3]
                \/ m[3] = o[3] /\ m[1] < o[1]
                \/ m[3] = o[3] /\ m[1] = o[1] /\ m[2] <= o[2]

\* sum of the sizes of SequenceMatcher.get_matching_blocks: the longest
\* block, then the same to its left and to its right
RECURSIVE matching_size(_, _, _, _, _, _)
matching_size(a, alo, ahi, b, blo, bhi) ==
    IF alo > ahi \/ blo > bhi THEN 0
    ELSE LET m == find_longest_match(a, alo, ahi, b, blo, bhi)
         IN  IF m[3] = 0 THEN 0
             ELSE m[3]
                  + matching_size(a, alo, m[1] - 1, b, blo, m[2] - 1)
                  + matching_size(a, m[1] + m[3], ahi, b, m[2] + m[3], bhi)

\* SequenceMatcher.ratio as the fraction <<numerator, denominator>>:
\* 2.0 * matches / length, and 1.0 when both strings are empty
ratio(a, b) ==
    LET length == Len(a) + Len(b)
    IN  IF length = 0 THEN <<1, 1>>
        ELSE <<2 * matching_size(a, 1, Len(a), b, 1, Len(b)), length>>

RatioAtLeast(r, num, den) == r[1] * den >= num * r[2]
RatioLess(r, s) == r[1] * s[2] < s[1] * r[2]
RatioEq(r, s) == r[1] * s[2] = s[1] * r[2]

\* order of the (score, x) tuples that heapq.nlargest compares
ScoredLess(p, q) ==
    \/ RatioLess(p[1], q[1])
    \/ RatioEq(p[1], q[1]) /\ StrLess(p[2], q[2])

\* heapq.nlargest(k, scored): the k largest tuples, largest first
RECURSIVE nlargest(_, _)
nlargest(k, scored) ==
    IF k = 0 \/ scored = <<>> THEN <<>>
    ELSE LET top == CHOOSE i \in 1..Len(scored) :
                        /\ \A j \in 1..Len(scored) : ~ScoredLess(scored[i], scored[j])
                        /\ \A j \in 1..(i - 1) : ScoredLess(scored[j], scored[i])
             rest == SubSeq(scored, 1, top - 1) \o SubSeq(scored, top + 1, Len(scored))
         IN  <<scored[top]>> \o nlargest(k - 1, rest)

\* difflib.get_close_matches(word, possibilities, n=k, cutoff=0.7); the two
\* quick ratios it tests first are upper bounds of ratio, so the entries
\* kept are those whose ratio reaches the cutoff
get_close_matches(word, possibilities, k) ==
    LET scoredAll == [i \in 1..Len(possibilities) |->
                         <<ratio(possibilities[i], word), possibilities[i]>>]
        Good(p) == RatioAtLeast(p[1], CutoffNum, CutoffDen)
        best == nlargest(k, SelectSeq(scoredAll, Good))
    IN  [i \in 1..Len(best) |-> best[i][2]]

-----------------------------------------------------------------------------
(* Search helper *)

\* faulty variant of search_narrators: no early return, substring and fuzzy
\* matches are merged
search_narrators_merged(qry, chs, k) ==
    LET q == Strip(Lower(qry))
        lowered == [i \in 1..Len(chs) |-> Lower(chs[i])]
        fuzzy == get_close_matches(q, lowered, k)
        Either(c) == Contains(Lower(c), q) \/ Lower(c) \in Elems(fuzzy)
    IN  Prefix(SelectSeq(chs, Either), k)

search_narrators(qry, chs, k) ==
    LET q == Strip(Lower(qry))
        HasQ(c) == Contains(Lower(c), q)
        substr == SelectSeq(chs, HasQ)
        lowered == [i \in 1..Len(chs) |-> Lower(chs[i])]
        fuzzy == get_close_matches(q, lowered, k)
        InFuzzy(c) == Lower(c) \in Elems(fuzzy)
    IN  IF substr # <<>> THEN Prefix(substr, k)
        ELSE SelectSeq(chs, InFuzzy)

-----------------------------------------------------------------------------
(* Narrator rows.  The index lists and the city list of a row are modelled *)
(* as sets: the code only tests membership in them and intersects them.    *)

\* a missing scholar_index (pandas NaN): equal to no parsed index
NaN == -1

\* Python's `x in lst` for a scholar index and a list of parsed integers
InIndex(x, lst) == x # NaN /\ x \in lst

Max(x, y) == IF x >= y THEN x ELSE y
Min(x, y) == IF x <= y THEN x ELSE y

\* faulty variant of overlap_years: the difference is not clamped at zero
overlap_years_unclamped(a, b) ==
    Min(a.death_greg, b.death_greg) - Max(a.birth_greg, b.birth_greg)

\* faulty variant of overlap_years: from the later birth of b to the death of a
overlap_years_one_sided(a, b) ==
    Max(0, a.death_greg - b.birth_greg)

\* overlap_years of the loop body
overlap_years(a, b) ==
    Max(0, Min(a.death_greg, b.death_greg) - Max(a.birth_greg, b.birth_greg))

\* common of the loop body
common(a, b) == a.cities \cap b.cities

\* faulty variant of is_teacher: only the students list of a is consulted
is_teacher_one_side(a, b) ==
    InIndex(b.scholar_index, a.students_index)

is_teacher(a, b) ==
    \/ InIndex(b.scholar_index, a.students_index)
    \/ InIndex(a.scholar_index, b.teachers_index)

is_student(a, b) ==
    \/ InIndex(b.scholar_index, a.teachers_index)
    \/ InIndex(a.scholar_index, b.students_index)

link_label(a, b) ==
    IF is_teacher(a, b) THEN <<a.name_letters, "is the teacher of", b.name_letters>>
    ELSE IF is_student(a, b) THEN <<a.name_letters, "is the student of", b.name_letters>>
    ELSE <<"None">>

\* faulty variant of status: the ten-year rule is tested before the direct link
status_overlap_first(a, b) ==
    IF overlap_years(a, b) >= StrongOverlap THEN "Strong"
    ELSE IF is_teacher(a, b) \/ is_student(a, b) THEN "Silsilah muttasilah"
    ELSE IF overlap_years(a, b) >= WeakOverlap /\ common(a, b) # {} THEN "Strong (Geo)"
    ELSE IF overlap_years(a, b) >= WeakOverlap THEN "Weak"
    ELSE "None"

\* faulty variant of status: the shared-city rule is tested before the ten-year rule
status_geo_first(a, b) ==
    IF is_teacher(a, b) \/ is_student(a, b) THEN "Silsilah muttasilah"
    ELSE IF overlap_years(a, b) >= WeakOverlap /\ common(a, b) # {} THEN "Strong (Geo)"
    ELSE IF overlap_years(a, b) >= StrongOverlap THEN "Strong"
    ELSE IF overlap_years(a, b) >= WeakOverlap THEN "Weak"
    ELSE "None"

status(a, b) ==
    IF is_teacher(a, b) \/ is_student(a, b) THEN "Silsilah muttasilah"
    ELSE IF overlap_years(a, b) >= StrongOverlap THEN "Strong"
    ELSE IF overlap_years(a, b) >= WeakOverlap /\ common(a, b) # {} THEN "Strong (Geo)"
    ELSE IF overlap_years(a, b) >= WeakOverlap THEN "Weak"
    ELSE "None"

\* everything one pass of the results loop computes for the pair (a, b)
sanad_link(a, b) ==
    [a |-> a.name_letters,
     b |-> b.name_letters,
     overlap_years |-> overlap_years(a, b),
     common |-> common(a, b),
     is_teacher |-> is_teacher(a, b),
     is_student |-> is_student(a, b),
     link_label |-> link_label(a, b),
     status |-> status(a, b)]

-----------------------------------------------------------------------------
(* Names and the loaded dataset *)

Malik == <<"M", "a", "l", "i", "k">>
Malek == <<"M", "a", "l", "e", "k">>
MALIK == <<"M", "A", "L", "I", "K">>
Anas == <<"A", "n", "a", "s">>

PoolNames == {Malik, Malek, MALIK, Anas}

Queries ==
    { <<>>,
      <<" ">>,
      <<"m", "a", "l">>,
      <<"M", "a", "l", "i", "k">>,
      <<"A", "n", "a", "s", " ">>,
      <<"m", "a", "l", "i", "k", "h">>,
      <<"m", "e", "l", "i", "k">>,
      <<"z", "z">> }

Row(name, birth, death, cts, idx, students, teachers) ==
    [name_letters |-> name, birth_greg |-> birth, death_greg |-> death,
     cities |-> cts, scholar_index |-> idx,
     students_index |-> students, teachers_index |-> teachers]

\* narrators_df after load_data: one row per name
narrators_df ==
    << Row(Malik, 1, 12, {"kufa"}, 1, {2}, {}),
       Row(Malek, 2, 13, {"kufa", "basra"}, 2, {}, {}),
       Row(MALIK, 12, 13, {"basra"}, NaN, {}, {}),
       Row(Anas, 3, 2, {}, 4, {}, {2}) >>

\* narrators_df['name_letters'].tolist()
name_letters == [i \in 1..Len(narrators_df) |-> narrators_df[i].name_letters]

\* lookup.loc[name]
lookup(name) ==
    narrators_df[CHOOSE i \in 1..Len(narrators_df) : narrators_df[i].name_letters = name]

\* faulty variant of render_cards: every card pairs the head of the chain
\* with a later narrator
render_cards_from_head(chain) ==
    IF Len(chain) >= 2
    THEN [i \in 1..(Len(chain) - 1) |->
             [i |-> i] @@ sanad_link(lookup(chain[1]), lookup(chain[i + 1]))]
    ELSE <<>>

\* the cards of one script run: one per adjacent pair of the chain
render_cards(chain) ==
    IF Len(chain) >= 2
    THEN [i \in 1..(Len(chain) - 1) |->
             [i |-> i] @@ sanad_link(lookup(chain[i]), lookup(chain[i + 1]))]
    ELSE <<>>

-----------------------------------------------------------------------------
(* Session callbacks; each is followed by the script run that renders the  *)
(* cards of the chain.                                                     *)

\* a remove button passes any idx the caller likes; the callback checks it
RemoveIdx == (-1)..MaxIdx

\* on_change of the text input
on_change(q) ==
    /\ q # input
    /\ input' = q
    /\ matches' = search_narrators(q, name_letters, DefaultN)
    /\ cards' = render_cards(narrator_chain)
    /\ UNCHANGED <<narrator_chain, selected>>

\* the selectbox, shown while there are matches
select(m) ==
    /\ matches # <<>>
    /\ m \in Elems(matches)
    /\ selected' = m
    /\ cards' = render_cards(narrator_chain)
    /\ UNCHANGED <<narrator_chain, matches, input>>

\* faulty variant of add_narrator: the selection is appended without the
\* membership test
add_narrator_unchecked ==
    /\ matches # <<>>
    /\ narrator_chain' =
          IF selected # <<>>
          THEN Append(narrator_chain, selected)
          ELSE narrator_chain
    /\ input' = <<>>
    /\ matches' = <<>>
    /\ selected' = <<>>
    /\ cards' = render_cards(narrator_chain')

\* the "Add Narrator" button, shown while there are matches
add_narrator ==
    /\ matches # <<>>
    /\ narrator_chain' =
          IF selected # <<>> /\ selected \notin Elems(narrator_chain)
          THEN Append(narrator_chain, selected)
          ELSE narrator_chain
    /\ input' = <<>>
    /\ matches' = <<>>
    /\ selected' = <<>>
    /\ cards' = render_cards(narrator_chain')

\* list.pop(idx) for an idx in range (idx counts from 0)
Pop(chain, idx) == SubSeq(chain, 1, idx) \o SubSeq(chain, idx + 2, Len(chain))

remove_narrator(idx) ==
    /\ narrator_chain' =
          IF 0 <= idx /\ idx < Len(narrator_chain)
          THEN Pop(narrator_chain, idx)
          ELSE narrator_chain
    /\ matches' = <<>>
    /\ selected' = <<>>
    /\ input' = <<>>
    /\ cards' = render_cards(narrator_chain')

\* the "Reset Chain" button, shown while the chain is not empty
reset_chain ==
    /\ narrator_chain # <<>>
    /\ narrator_chain' = <<>>
    /\ input' = <<>>
    /\ matches' = <<>>
    /\ selected' = <<>>
    /\ cards' = render_cards(narrator_chain')

SessionInit ==
    /\ narrator_chain = <<>>
    /\ matches = <<>>
    /\ input = <<>>
    /\ selected = <<>>
    /\ cards = <<>>

SearchIdle == query = <<>> /\ choices = <<>> /\ n = DefaultN /\ result = Null
PairIdle == ra = Null /\ rb = Null /\ verdict = Null

Init == SessionInit /\ SearchIdle /\ PairIdle /\ pc = "session"

Next ==
    \/ \E q \in Queries : on_change(q) /\ UNCHANGED <<searchVars, pairVars, pc>>
    \/ \E m \in PoolNames : select(m) /\ UNCHANGED <<searchVars, pairVars, pc>>
    \/ add_narrator /\ UNCHANGED <<searchVars, pairVars, pc>>
    \/ \E idx \in RemoveIdx : remove_narrator(idx) /\ UNCHANGED <<searchVars, pairVars, pc>>
    \/ reset_chain /\ UNCHANGED <<searchVars, pairVars, pc>>

Spec == Init /\ [][Next]_vars

-----------------------------------------------------------------------------
(* The search helper on its own: any query, list of choices and n *)

Pools == UNION {[1..k -> PoolNames] : k \in 0..MaxPool}

SearchInit ==
    /\ query \in Queries
    /\ choices \in Pools
    /\ n \in (1..MaxN) \cup {DefaultN}
    /\ result = Null
    /\ pc = "search"
    /\ SessionInit /\ PairIdle

Search ==
    /\ pc = "search"
    /\ result' = search_narrators(query, choices, n)
    /\ pc' = "searched"
    /\ UNCHANGED <<query, choices, n, sessionVars, pairVars>>

SearchNext == Search

SpecSearch == SearchInit /\ [][SearchNext]_vars

-----------------------------------------------------------------------------
(* One pass of the results loop on its own: any two valid rows *)

\* years a valid row can hold: some early years and the same a decade later
Years == (1..EarlyYears) \cup {StrongOverlap + y : y \in 2..EarlyYears}

CitySets == {{}, {"kufa"}, {"basra"}}

\* rows that pass the filters of load_data
Rows(name, idxs, others) ==
    {Row(name, birth, death, cts, idx, students, teachers) :
        birth \in Years, death \in Years, cts \in CitySets, idx \in idxs,
        students \in SUBSET others, teachers \in SUBSET others}

ValidRow(r) == r.birth_greg > 0 /\ r.death_greg > 0 /\ r.birth_greg # r.death_greg

PairInit ==
    /\ ra \in {r \in Rows(Malik, {NaN, 1}, {2}) : ValidRow(r)}
    /\ rb \in {r \in Rows(Anas, {NaN, 2}, {1}) : ValidRow(r)}
    /\ verdict = Null
    /\ pc = "pair"
    /\ SessionInit /\ SearchIdle

Evaluate ==
    /\ pc = "pair"
    /\ verdict' = sanad_link(ra, rb)
    /\ pc' = "evaluated"
    /\ UNCHANGED <<ra, rb, sessionVars, searchVars>>

PairNext == Evaluate

SpecPair == PairInit /\ [][PairNext]_vars

-----------------------------------------------------------------------------
(* Properties of one pass of the results loop (SpecPair) *)

Evaluated == pc = "evaluated"

Present(x) == x # NaN

\* the four membership tests between the two rows, on the rows themselves
FourWay(a, b) ==
    \/ b.scholar_index \in a.students_index
    \/ b.scholar_index \in a.teachers_index
    \/ a.scholar_index \in b.students_index
    \/ a.scholar_index \in b.teachers_index

Direct == verdict.is_teacher \/ verdict.is_student

\* C1 as stated: whenever a direct teacher/student relation is found, the
\* status is the value that the ten-year rule yields ("Strong"), whatever
\* the overlap and the shared cities are.
C1_DirectIsStrong ==
    Evaluated /\ Direct => verdict.status = "Strong"

\* C1 amended: whenever a direct teacher/student relation is found, the
\* status is "Silsilah muttasilah", a value of its own that no other rule
\* yields, whatever the overlap (zero included) and the shared cities are.
C1_DirectIsSilsilah ==
    Evaluated =>
        /\ Direct => verdict.status = "Silsilah muttasilah"
        /\ ~Direct => verdict.status # "Silsilah muttasilah"

C1_Witness ==
    /\ Evaluated /\ Direct
    /\ verdict.overlap_years = 0
    /\ verdict.common = {}
    /\ verdict.status = "Silsilah muttasilah"

\* C2: without a direct relation the first matching rule decides: an overlap
\* of ten years or more is "Strong" (shared cities or not), else an overlap
\* of a year or more with a shared city is "Strong (Geo)", else an overlap of
\* a year or more is "Weak", else "None".
C2_FirstRuleWins ==
    Evaluated /\ ~Direct =>
        LET ov == verdict.overlap_years
            geo == verdict.common # {}
        IN  /\ ov >= 10 => verdict.status = "Strong"
            /\ ov < 10 /\ ov >= 1 /\ geo => verdict.status = "Strong (Geo)"
            /\ ov < 10 /\ ov >= 1 /\ ~geo => verdict.status = "Weak"
            /\ ov < 1 => verdict.status = "None"

C2_Witness ==
    /\ Evaluated /\ ~Direct
    /\ verdict.overlap_years >= 10
    /\ verdict.common # {}
    /\ verdict.status = "Strong"

\* C7 as stated: the direct relation holds exactly when one of the four
\* membership tests holds, and it never holds when the scholar_index of
\* either row is missing.
C7_AbsentIndexForcesNone ==
    Evaluated =>
        /\ Direct <=> FourWay(ra, rb)
        /\ ~Present(ra.scholar_index) \/ ~Present(rb.scholar_index)
              => ~Direct /\ verdict.link_label = <<"None">>

\* C7 amended: the direct relation holds exactly when a scholar_index that
\* is present is found in one of the two index sets of the other row; a
\* missing scholar_index matches nothing, and the relation is none when
\* both are missing, but a missing index on one side does not hide a match
\* of the other row's index.
C7_DirectIsFourWay ==
    Evaluated =>
        /\ Direct <=>
              \/ /\ Present(rb.scholar_index)
                 /\ rb.scholar_index \in ra.students_index \cup ra.teachers_index
              \/ /\ Present(ra.scholar_index)
                 /\ ra.scholar_index \in rb.students_index \cup rb.teachers_index
        /\ ~Present(ra.scholar_index) /\ ~Present(rb.scholar_index) => ~Direct
        /\ Direct <=> verdict.link_label # <<"None">>

C7_Witness ==
    /\ Evaluated
    /\ ~Present(ra.scholar_index)
    /\ Present(rb.scholar_index)
    /\ rb.scholar_index \in ra.students_index
    /\ Direct

Disjoint(a, b) == a.death_greg < b.birth_greg \/ b.death_greg < a.birth_greg
Touching(a, b) == a.death_greg = b.birth_greg \/ b.death_greg = a.birth_greg

\* C8: for two valid rows overlap_years is the distance from the later birth
\* to the earlier death when that is positive and zero otherwise; it is
\* never negative, and it is zero when the lifespans are disjoint or touch
\* in a single year.
C8_OverlapClamped ==
    Evaluated =>
        LET lo == IF ra.birth_greg > rb.birth_greg THEN ra.birth_greg ELSE rb.birth_greg
            hi == IF ra.death_greg < rb.death_greg THEN ra.death_greg ELSE rb.death_greg
        IN  /\ verdict.overlap_years >= 0
            /\ verdict.overlap_years = (IF hi > lo THEN hi - lo ELSE 0)
            /\ Disjoint(ra, rb) \/ Touching(ra, rb) => verdict.overlap_years = 0

C8_Witness ==
    /\ Evaluated
    /\ ValidRow(ra) /\ ValidRow(rb)
    /\ ra.birth_greg < ra.death_greg /\ rb.birth_greg < rb.death_greg
    /\ ra.death_greg < rb.birth_greg
    /\ verdict.overlap_years = 0

\* C9: the pair taken in the other order gives the same overlap_years and
\* the same set of shared cities.
C9_Symmetric ==
    Evaluated =>
        /\ verdict.overlap_years = sanad_link(rb, ra).overlap_years
        /\ verdict.common = sanad_link(rb, ra).common

C9_Witness ==
    /\ Evaluated
    /\ verdict.overlap_years > 0
    /\ verdict.common # {}
    /\ ra.birth_greg # rb.birth_greg /\ ra.death_greg # rb.death_greg
    /\ verdict.is_teacher
    /\ sanad_link(rb, ra).link_label # verdict.link_label

-----------------------------------------------------------------------------
(* Properties of the search helper (SpecSearch) *)

Searched == pc = "searched"

\* the query as the helper compares it
Normalized == Strip(Lower(query))

\* the positions of the choices that contain the normalized query
SubstringHits == {i \in 1..Len(choices) : Contains(Lower(choices[i]), Normalized)}

\* similarity of a choice to the normalized query reaches the cutoff
Similar(c) == RatioAtLeast(ratio(Lower(c), Normalized), CutoffNum, CutoffDen)

\* the choices at the positions in hits, in list order
RECURSIVE Pick(_, _)
Pick(chs, hits) ==
    IF chs = <<>> THEN <<>>
    ELSE Pick(SubSeq(chs, 1, Len(chs) - 1), hits)
            \o (IF Len(chs) \in hits THEN <<chs[Len(chs)]>> ELSE <<>>)

\* chs by descending similarity to the normalized query, ties in list order
RECURSIVE Ranked(_)
Ranked(chs) ==
    IF chs = <<>> THEN <<>>
    ELSE LET sim(i) == ratio(Lower(chs[i]), Normalized)
             top == CHOOSE i \in 1..Len(chs) :
                        /\ \A j \in 1..Len(chs) : ~RatioLess(sim(i), sim(j))
                        /\ \A j \in 1..(i - 1) : RatioLess(sim(j), sim(i))
         IN  <<chs[top]>> \o Ranked(SubSeq(chs, 1, top - 1) \o SubSeq(chs, top + 1, Len(chs)))

\* C3: a query that is empty after trimming gives the empty result for
\* every list of choices.
C3_EmptyQueryEmptyResult ==
    Searched /\ Normalized = <<>> => result = <<>>

\* C4: when no choice contains the query, the result is the choices whose
\* similarity reaches the cutoff, by descending similarity with ties in
\* list order, cut to at most n entries.
C4_FuzzyRankedAndCapped ==
    Searched /\ SubstringHits = {} =>
        result = Prefix(Ranked(SelectSeq(choices, Similar)), n)

\* C5: for a non-empty query that some choice contains, the result is the
\* first n choices that contain it, in list order; a choice that is only
\* similar to the query is not returned.
C5_SubstringFirst ==
    Searched /\ Normalized # <<>> /\ SubstringHits # {} =>
        /\ result = Prefix(Pick(choices, SubstringHits), n)
        /\ \A i \in 1..Len(result) : Contains(Lower(result[i]), Normalized)

C5_Witness ==
    /\ Searched /\ Normalized # <<>> /\ SubstringHits # {}
    /\ \E i \in 1..Len(choices) :
          /\ i \notin SubstringHits
          /\ Similar(choices[i])
          /\ choices[i] \notin Elems(result)
    /\ Cardinality(SubstringHits) > n
    /\ Len(result) = n

-----------------------------------------------------------------------------
(* Properties of the session (Spec) *)

NoDuplicates(chain) ==
    \A i, j \in 1..Len(chain) : chain[i] = chain[j] => i = j

\* x stands before y in chain
Before(chain, x, y) ==
    \E i, j \in 1..Len(chain) : i < j /\ chain[i] = x /\ chain[j] = y

\* C6: the script run renders max(0, n - 1) cards for a chain of n names;
\* card i holds what the loop computes for (chain[i], chain[i+1]) in that
\* order, so cards follow the chain and only adjacent pairs are evaluated.
C6_OneCardPerAdjacentPair ==
    pc = "session" =>
        /\ Len(cards) = (IF Len(narrator_chain) >= 1 THEN Len(narrator_chain) - 1 ELSE 0)
        /\ \A i \in 1..Len(cards) :
              /\ cards[i].i = i
              /\ cards[i].a = narrator_chain[i]
              /\ cards[i].b = narrator_chain[i + 1]
              /\ LET link == sanad_link(lookup(narrator_chain[i]), lookup(narrator_chain[i + 1]))
                 IN  /\ cards[i].overlap_years = link.overlap_years
                     /\ cards[i].common = link.common
                     /\ cards[i].link_label = link.link_label
                     /\ cards[i].status = link.status

C6_Witness ==
    /\ pc = "session"
    /\ Len(narrator_chain) = 3
    /\ Len(cards) = 2
    /\ cards[2].a = narrator_chain[2]
    /\ cards[2].b = narrator_chain[3]

\* C10: every step of the session leaves the chain without duplicates; a
\* name enters the chain only at the end, only if it is the non-empty
\* selection and not yet in the chain, and the names that stay keep their
\* relative order.
C10_ChainUniqueInOrder ==
    [][ /\ NoDuplicates(narrator_chain')
        /\ \A x \in Elems(narrator_chain') \ Elems(narrator_chain) :
              /\ x = selected /\ x # <<>>
              /\ narrator_chain' = Append(narrator_chain, x)
        /\ \A x, y \in Elems(narrator_chain) \cap Elems(narrator_chain') :
              Before(narrator_chain, x, y) => Before(narrator_chain', x, y)
      ]_vars

C10_Witness ==
    /\ pc = "session"
    /\ Len(narrator_chain) >= 2
    /\ matches # <<>>
    /\ selected \in Elems(narrator_chain)

====
